---------------------------- MODULE Spec2Model ----------------------------
(***************************************************************************)
(* Model of server/storage.ts: the IStorage contract with its two          *)
(* backends, MemStorage (Map collections) and DbStorage (one SQL request   *)
(* per operation), and the seed initializers of both.                      *)
(*                                                                         *)
(* Representation of JavaScript values                                     *)
(*   - a scalar is the TLA+ string of its JavaScript literal: the string   *)
(*     'pending' is "'pending'", the number 0 is "0", the string '0' is    *)
(*     "'0'", true is "true", null is "null";                              *)
(*   - an object is a function from its keys to values; a key that is      *)
(*     absent reads as undefined;                                          *)
(*   - identifiers (randomUUID / the database's generated key) are the     *)
(*     successive values of the counter uuid, and Date values are the      *)
(*     successive values of the counter now;                               *)
(*   - an array is a sequence; a listing result is the set of its rows.    *)
(***************************************************************************)
EXTENDS Integers, Sequences, FiniteSets, TLC

VARIABLES
    backend,            \* "mem" (MemStorage) or "db" (DbStorage)
    users,              \* Map<string, User>            / table users
    serviceCategories,  \* Map<string, ServiceCategory> / table service_categories
    providers,          \* Map<string, Provider>        / table providers
    bookings,           \* Map<string, Booking>         / table bookings
    reviews,            \* Map<string, Review>          / table reviews
    uuid,               \* number of identifiers generated so far
    now,                \* the clock read by new Date() / defaultNow()
    ret,                \* the last completed call: [op, id, input, val]
    deleted,            \* history: ids of the reviews deleteReview has removed
    seed,               \* the seed initializer invocations: i -> activation record
    writes              \* history: i -> number of inserts and updates invocation i issued

vars == <<backend, users, serviceCategories, providers, bookings, reviews,
          uuid, now, ret, deleted, seed, writes>>

stores == <<users, serviceCategories, providers, bookings, reviews>>

-----------------------------------------------------------------------------
(* Bounds of the exploration *)

MaxIds == 2         \* identifiers the CRUD specification lets the callers generate

-----------------------------------------------------------------------------
(* JavaScript values and object operations *)

Null == "null"

\* the absent value returned by Map.get on a missing key / result[0] of an empty result
Undefined == [undefined |-> TRUE]

\* null where an object is expected (the user summary of a provider listing)
NullObj == [null |-> TRUE]

\* a rejected promise
Thrown(msg) == [thrown |-> msg]

Bool(b) == [bool |-> b]

EmptyObj == [k \in {} |-> Null]

\* { ...a, ...b }
Spread(a, b) == [k \in (DOMAIN a) \cup (DOMAIN b) |-> IF k \in DOMAIN b THEN b[k] ELSE a[k]]

\* o[k] ?? d for a scalar field
Coalesce(o, k, d) == IF k \in DOMAIN o /\ o[k] # Null THEN o[k] ELSE d

\* o[k] ?? d for an array field (the enumerated inputs never hold null there)
CoalesceArr(o, k, d) == IF k \in DOMAIN o THEN o[k] ELSE d

\* ToBoolean of a scalar
Truthy(v) == v \notin {"false", "null", "0", "''", "NaN"}

\* the characters between the quotes of a string literal
Unquote(s) == SubSeq(s, 2, Len(s) - 1)

LowerChar(c) ==
    CASE c = "N" -> "n" [] c = "O" -> "o" [] c = "R" -> "r" [] c = "T" -> "t"
      [] c = "H" -> "h" [] c = "S" -> "s" [] c = "I" -> "i" [] c = "D" -> "d"
      [] c = "E" -> "e" [] c = "W" -> "w"
      [] OTHER -> c

\* String.prototype.toLowerCase
RECURSIVE ToLowerCase(_)
ToLowerCase(s) ==
    IF Len(s) = 0 THEN "" ELSE LowerChar(SubSeq(s, 1, 1)) \o ToLowerCase(SubSeq(s, 2, Len(s)))

\* String.prototype.includes
Includes(s, t) == \E i \in 1..(Len(s) - Len(t) + 1) : SubSeq(s, i, i + Len(t) - 1) = t

\* Array.prototype.includes
ArrIncludes(a, x) == \E i \in 1..Len(a) : a[i] = x

-----------------------------------------------------------------------------
(* Map collections of MemStorage *)

\* Map.prototype.get
MapGet(m, k) == IF k \in DOMAIN m THEN m[k] ELSE Undefined

\* Map.prototype.set
MapSet(m, k, v) == [x \in (DOMAIN m) \cup {k} |-> IF x = k THEN v ELSE m[x]]

\* Map.prototype.delete: the map afterwards
MapDelete(m, k) == [x \in (DOMAIN m) \ {k} |-> m[x]]

\* Array.from(m.values()) as a set
MapValues(m) == {m[k] : k \in DOMAIN m}

EmptyMap == [k \in {} |-> EmptyObj]


-----------------------------------------------------------------------------
(* The relational requests DbStorage issues through db (drizzle-orm)        *)

\* result[0]
First(rows) == IF Len(rows) > 0 THEN rows[1] ELSE Undefined

\* the row an insert writes: every column of the table, taken from the values
\* when they name it and from the column's default (or NULL) otherwise; keys
\* of the values that are no column are ignored
DbRow(columns, values) ==
    [c \in DOMAIN columns |-> IF c \in DOMAIN values THEN values[c] ELSE columns[c]]

\* db.insert(t).values(v).returning()
DbInsertReturning(table, columns, values) ==
    LET row == DbRow(columns, values)
    IN  [table |-> MapSet(table, row.id, row), rows |-> <<row>>, error |-> FALSE]

\* db.update(t).set(s).where(eq(t.id, id)).returning(): set() rejects an
\* update that names no column ("No values to set"); otherwise the row with that
\* id, if any, gets the named columns and is returned
DbUpdateReturning(table, id, set) ==
    IF DOMAIN set = {}
    THEN [table |-> table, rows |-> <<>>, error |-> TRUE]
    ELSE IF id \in DOMAIN table
         THEN LET row == Spread(table[id], set)
              IN  [table |-> MapSet(MapDelete(table, id), row.id, row), rows |-> <<row>>, error |-> FALSE]
         ELSE [table |-> table, rows |-> <<>>, error |-> FALSE]

\* db.delete(t).where(eq(t.id, id)).returning()
DbDeleteReturning(table, id) ==
    IF id \in DOMAIN table
    THEN [table |-> MapDelete(table, id), rows |-> <<table[id]>>, error |-> FALSE]
    ELSE [table |-> table, rows |-> <<>>, error |-> FALSE]

\* db.select().from(t).where(eq(t.id, id))
DbSelectById(table, id) == IF id \in DOMAIN table THEN <<table[id]>> ELSE <<>>

\* what an update call resolves to: result[0], or the rejection of set()
DbUpdateResult(r) == IF r.error THEN Thrown("No values to set") ELSE First(r.rows)

\* the columns of the tables with their defaults (shared/schema)
UsersColumns(id, date) ==
    [id |-> id, email |-> Null, password |-> Null, firstName |-> Null, lastName |-> Null,
     role |-> "'customer'", phone |-> Null, createdAt |-> date]

ServiceCategoriesColumns(id) ==
    [id |-> id, name |-> Null, description |-> Null, icon |-> Null, color |-> Null]

ProvidersColumns(id, date) ==
    [id |-> id, userId |-> 0, businessName |-> Null, specialty |-> Null, description |-> Null,
     location |-> "''", hourlyRate |-> Null, serviceRadius |-> Null, isApproved |-> "false",
     isAvailable |-> "true", rating |-> "'0'", reviewCount |-> "0", categories |-> <<>>,
     availability |-> Null, profileImage |-> Null, portfolio |-> <<>>, certifications |-> <<>>,
     yearsExperience |-> Null, createdAt |-> date]

BookingsColumns(id, date) ==
    [id |-> id, customerId |-> 0, providerId |-> 0, status |-> "'pending'",
     estimatedDuration |-> Null, estimatedCost |-> Null, actualCost |-> Null, notes |-> Null,
     createdAt |-> date]

ReviewsColumns(id, date) ==
    [id |-> id, providerId |-> 0, customerId |-> 0, bookingId |-> 0, rating |-> Null,
     comment |-> Null, isVisible |-> "true", createdAt |-> date]

-----------------------------------------------------------------------------
(* Users *)

\* MemStorage.getUser
MemGetUser(us, id) == MapGet(us, id)

\* DbStorage.getUser
DbGetUser(us, id) == First(DbSelectById(us, id))

\* createUser as it would be if it stored its input instead of the user it returns
MemCreateUserStoresInput(us, insertUser, id, date) ==
    LET user == Spread(insertUser,
                       [id |-> id,
                        createdAt |-> date,
                        phone |-> Coalesce(insertUser, "phone", Null),
                        role |-> Coalesce(insertUser, "role", "'customer'")])
    IN  [store |-> MapSet(us, id, Spread(insertUser, [id |-> id])), val |-> user]

\* MemStorage.createUser
MemCreateUser(us, insertUser, id, date) ==
    LET user == Spread(insertUser,
                       [id |-> id,
                        createdAt |-> date,
                        phone |-> Coalesce(insertUser, "phone", Null),
                        role |-> Coalesce(insertUser, "role", "'customer'")])
    IN  [store |-> MapSet(us, id, user), val |-> user]

\* DbStorage.createUser
DbCreateUser(us, user, id, date) ==
    LET result == DbInsertReturning(us, UsersColumns(id, date), user)
    IN  [store |-> result.table, val |-> result.rows[1]]

\* MemStorage.updateUser
MemUpdateUser(us, id, updates) ==
    LET user == MapGet(us, id)
    IN  IF user = Undefined
        THEN [store |-> us, val |-> Undefined]
        ELSE LET updatedUser == Spread(user, updates)
             IN  [store |-> MapSet(us, id, updatedUser), val |-> updatedUser]

\* DbStorage.updateUser
DbUpdateUser(us, id, updates) ==
    LET result == DbUpdateReturning(us, id, updates)
    IN  [store |-> result.table, val |-> DbUpdateResult(result)]

-----------------------------------------------------------------------------
(* Providers *)

\* MemStorage.getProvider
MemGetProvider(ps, id) == MapGet(ps, id)

\* DbStorage.getProvider
DbGetProvider(ps, id) == First(DbSelectById(ps, id))

\* createProvider as it would be if the default rating were the number 0
MemCreateProviderNumberRating(ps, provider, id, date) ==
    LET newProvider ==
            Spread(provider,
                   [id |-> id,
                    createdAt |-> date,
                    userId |-> provider.userId,
                    specialty |-> provider.specialty,
                    location |-> Coalesce(provider, "location", "''"),
                    description |-> Coalesce(provider, "description", Null),
                    isApproved |-> Coalesce(provider, "isApproved", "false"),
                    isAvailable |-> Coalesce(provider, "isAvailable", "true"),
                    businessName |-> Coalesce(provider, "businessName", Null),
                    serviceRadius |-> Coalesce(provider, "serviceRadius", Null),
                    hourlyRate |-> Coalesce(provider, "hourlyRate", Null),
                    rating |-> Coalesce(provider, "rating", "0"),
                    reviewCount |-> Coalesce(provider, "reviewCount", "0"),
                    categories |-> CoalesceArr(provider, "categories", <<>>),
                    availability |-> Coalesce(provider, "availability", Null),
                    profileImage |-> Coalesce(provider, "profileImage", Null),
                    portfolio |-> CoalesceArr(provider, "portfolio", <<>>),
                    certifications |-> CoalesceArr(provider, "certifications", <<>>),
                    yearsExperience |-> Coalesce(provider, "yearsExperience", Null)])
    IN  [store |-> MapSet(ps, id, newProvider), val |-> newProvider]

\* MemStorage.createProvider
MemCreateProvider(ps, provider, id, date) ==
    LET newProvider ==
            Spread(provider,
                   [id |-> id,
                    createdAt |-> date,
                    userId |-> provider.userId,
                    specialty |-> provider.specialty,
                    location |-> Coalesce(provider, "location", "''"),
                    description |-> Coalesce(provider, "description", Null),
                    isApproved |-> Coalesce(provider, "isApproved", "false"),
                    isAvailable |-> Coalesce(provider, "isAvailable", "true"),
                    businessName |-> Coalesce(provider, "businessName", Null),
                    serviceRadius |-> Coalesce(provider, "serviceRadius", Null),
                    hourlyRate |-> Coalesce(provider, "hourlyRate", Null),
                    rating |-> Coalesce(provider, "rating", "'0'"),
                    reviewCount |-> Coalesce(provider, "reviewCount", "0"),
                    categories |-> CoalesceArr(provider, "categories", <<>>),
                    availability |-> Coalesce(provider, "availability", Null),
                    profileImage |-> Coalesce(provider, "profileImage", Null),
                    portfolio |-> CoalesceArr(provider, "portfolio", <<>>),
                    certifications |-> CoalesceArr(provider, "certifications", <<>>),
                    yearsExperience |-> Coalesce(provider, "yearsExperience", Null)])
    IN  [store |-> MapSet(ps, id, newProvider), val |-> newProvider]

\* DbStorage.createProvider
DbCreateProvider(ps, provider, id, date) ==
    LET result == DbInsertReturning(ps, ProvidersColumns(id, date), provider)
    IN  [store |-> result.table, val |-> result.rows[1]]

\* MemStorage.updateProvider
MemUpdateProvider(ps, id, updates) ==
    LET provider == MapGet(ps, id)
    IN  IF provider = Undefined
        THEN [store |-> ps, val |-> Undefined]
        ELSE LET updatedProvider == Spread(provider, updates)
             IN  [store |-> MapSet(ps, id, updatedProvider), val |-> updatedProvider]

\* DbStorage.updateProvider
DbUpdateProvider(ps, id, updates) ==
    LET result == DbUpdateReturning(ps, id, updates)
    IN  [store |-> result.table, val |-> DbUpdateResult(result)]

\* filters?.f !== undefined
Supplied(filters, f) == f \in DOMAIN filters

\* filters?.f as a condition
SuppliedTruthy(filters, f) == f \in DOMAIN filters /\ Truthy(filters[f])

\* the user summary MemStorage.getProviders attaches
MemUserSummary(us, provider) ==
    LET user == MapGet(us, provider.userId)
    IN  IF user # Undefined
        THEN [id |-> user.id, firstName |-> user.firstName,
              lastName |-> user.lastName, email |-> user.email]
        ELSE NullObj

\* MemStorage.getProviders
MemGetProviders(ps, us, filters) ==
    LET providersWithUsers ==
            {Spread(p, [user |-> MemUserSummary(us, p)]) : p \in MapValues(ps)}
        byApproved ==
            IF Supplied(filters, "isApproved")
            THEN {p \in providersWithUsers : p.isApproved = filters.isApproved}
            ELSE providersWithUsers
        byLocation ==
            IF SuppliedTruthy(filters, "location")
            THEN {p \in byApproved :
                    Includes(ToLowerCase(Unquote(p.location)),
                             ToLowerCase(Unquote(filters.location)))}
            ELSE byApproved
        byCategory ==
            IF "categoryId" \in DOMAIN filters
            THEN {p \in byLocation : ArrIncludes(p.categories, filters.categoryId)}
            ELSE byLocation
    IN  byCategory

\* like(column, `%${s}%`): PostgreSQL's LIKE compares case-sensitively
SqlLikeContains(value, s) == Includes(Unquote(value), Unquote(s))

\* DbStorage.getProviders
DbGetProviders(ps, filters) ==
    LET allProviders ==
            {p \in MapValues(ps) :
                /\ Supplied(filters, "isApproved") => p.isApproved = filters.isApproved
                /\ SuppliedTruthy(filters, "location") => SqlLikeContains(p.location, filters.location)}
    IN  IF "categoryId" \in DOMAIN filters
        THEN {p \in allProviders : ArrIncludes(p.categories, filters.categoryId)}
        ELSE allProviders

-----------------------------------------------------------------------------
(* Bookings *)

\* MemStorage.getBooking
MemGetBooking(bs, id) == MapGet(bs, id)

\* DbStorage.getBooking
DbGetBooking(bs, id) == First(DbSelectById(bs, id))

\* createBooking as it would be if status defaulted to null like the other optional fields
MemCreateBookingNullStatus(bs, booking, id, date) ==
    LET newBooking ==
            Spread(booking,
                   [id |-> id,
                    createdAt |-> date,
                    status |-> Coalesce(booking, "status", Null),
                    estimatedDuration |-> Coalesce(booking, "estimatedDuration", Null),
                    estimatedCost |-> Coalesce(booking, "estimatedCost", Null),
                    actualCost |-> Coalesce(booking, "actualCost", Null),
                    notes |-> Coalesce(booking, "notes", Null)])
    IN  [store |-> MapSet(bs, id, newBooking), val |-> newBooking]

\* MemStorage.createBooking
MemCreateBooking(bs, booking, id, date) ==
    LET newBooking ==
            Spread(booking,
                   [id |-> id,
                    createdAt |-> date,
                    status |-> Coalesce(booking, "status", "'pending'"),
                    estimatedDuration |-> Coalesce(booking, "estimatedDuration", Null),
                    estimatedCost |-> Coalesce(booking, "estimatedCost", Null),
                    actualCost |-> Coalesce(booking, "actualCost", Null),
                    notes |-> Coalesce(booking, "notes", Null)])
    IN  [store |-> MapSet(bs, id, newBooking), val |-> newBooking]

\* DbStorage.createBooking
DbCreateBooking(bs, booking, id, date) ==
    LET result == DbInsertReturning(bs, BookingsColumns(id, date), booking)
    IN  [store |-> result.table, val |-> result.rows[1]]

\* MemStorage.updateBooking
MemUpdateBooking(bs, id, updates) ==
    LET booking == MapGet(bs, id)
    IN  IF booking = Undefined
        THEN [store |-> bs, val |-> Undefined]
        ELSE LET updatedBooking == Spread(booking, updates)
             IN  [store |-> MapSet(bs, id, updatedBooking), val |-> updatedBooking]

\* DbStorage.updateBooking
DbUpdateBooking(bs, id, updates) ==
    LET result == DbUpdateReturning(bs, id, updates)
    IN  [store |-> result.table, val |-> DbUpdateResult(result)]

-----------------------------------------------------------------------------
(* Reviews *)

\* MemStorage.getReviews
MemGetReviews(rs, providerId) ==
    {r \in MapValues(rs) : r.providerId = providerId /\ Truthy(r.isVisible)}

\* DbStorage.getReviews
DbGetReviews(rs, providerId) ==
    {r \in MapValues(rs) : r.providerId = providerId}

\* MemStorage.createReview
MemCreateReview(rs, review, id, date) ==
    LET newReview ==
            Spread(review,
                   [id |-> id,
                    createdAt |-> date,
                    providerId |-> review.providerId,
                    customerId |-> review.customerId,
                    bookingId |-> review.bookingId,
                    rating |-> review.rating,
                    comment |-> Coalesce(review, "comment", Null),
                    isVisible |-> Coalesce(review, "isVisible", "true")])
    IN  [store |-> MapSet(rs, id, newReview), val |-> newReview]

\* DbStorage.createReview
DbCreateReview(rs, review, id, date) ==
    LET result == DbInsertReturning(rs, ReviewsColumns(id, date), review)
    IN  [store |-> result.table, val |-> result.rows[1]]

\* MemStorage.updateReview
MemUpdateReview(rs, id, updates) ==
    LET review == MapGet(rs, id)
    IN  IF review = Undefined
        THEN [store |-> rs, val |-> Undefined]
        ELSE LET updatedReview == Spread(review, updates)
             IN  [store |-> MapSet(rs, id, updatedReview), val |-> updatedReview]

\* DbStorage.updateReview
DbUpdateReview(rs, id, updates) ==
    LET result == DbUpdateReturning(rs, id, updates)
    IN  [store |-> result.table, val |-> DbUpdateResult(result)]

\* MemStorage.deleteReview
MemDeleteReview(rs, id) ==
    [store |-> MapDelete(rs, id), val |-> Bool(id \in DOMAIN rs)]

\* deleteReview as it would be if it returned result.length >= 0
DbDeleteReviewAlwaysTrue(rs, id) ==
    LET result == DbDeleteReturning(rs, id)
    IN  [store |-> result.table, val |-> Bool(Len(result.rows) >= 0)]

\* DbStorage.deleteReview
DbDeleteReview(rs, id) ==
    LET result == DbDeleteReturning(rs, id)
    IN  [store |-> result.table, val |-> Bool(Len(result.rows) > 0)]

-----------------------------------------------------------------------------
(* Service categories *)

\* MemStorage.getServiceCategories
MemGetServiceCategories(cs) == MapValues(cs)

\* DbStorage.getServiceCategories
DbGetServiceCategories(cs) == MapValues(cs)

\* MemStorage.getAllUsers
MemGetAllUsers(us) == MapValues(us)

\* MemStorage.createServiceCategory
MemCreateServiceCategory(cs, category, id) ==
    LET serviceCategory ==
            Spread(category,
                   [id |-> id, description |-> Coalesce(category, "description", Null)])
    IN  [store |-> MapSet(cs, id, serviceCategory), val |-> serviceCategory]

\* DbStorage.createServiceCategory
DbCreateServiceCategory(cs, category, id) ==
    LET result == DbInsertReturning(cs, ServiceCategoriesColumns(id), category)
    IN  [store |-> result.table, val |-> result.rows[1]]

-----------------------------------------------------------------------------
(* Seed data *)

\* const categories
SeedCategories ==
    << [name |-> "'Electrical'", description |-> "'Wiring, repairs, installations'", icon |-> "'zap'", color |-> "'blue'"],
       [name |-> "'Plumbing'", description |-> "'Pipes, fixtures, emergency repairs'", icon |-> "'wrench'", color |-> "'green'"],
       [name |-> "'Carpentry'", description |-> "'Custom work, repairs, installations'", icon |-> "'hammer'", color |-> "'amber'"],
       [name |-> "'HVAC'", description |-> "'Heating, cooling, ventilation'", icon |-> "'thermometer'", color |-> "'purple'"],
       [name |-> "'General Contracting'", description |-> "'Home improvements, renovations'", icon |-> "'building'", color |-> "'red'"],
       [name |-> "'Landscaping'", description |-> "'Garden design, lawn care'", icon |-> "'leaf'", color |-> "'teal'"],
       [name |-> "'Painting'", description |-> "'Interior, exterior, touch-ups'", icon |-> "'paintbrush'", color |-> "'orange'"],
       [name |-> "'Cleaning Services'", description |-> "'House cleaning, deep cleaning'", icon |-> "'spray'", color |-> "'gray'"] >>

\* await bcrypt.hash(password, 10)
Hash(password) == "'bcrypt(" \o password \o ")'"

\* the admin user both initializers create
SeedAdmin ==
    [email |-> "'admin@localfix.com'", password |-> Hash("admin123"),
     firstName |-> "'Admin'", lastName |-> "'User'", role |-> "'admin'"]

\* the names whose ids the initializers resolve, in the order of the sample providers
SeedCategoryNames == << "'Electrical'", "'Plumbing'", "'Carpentry'" >>

\* categories: cat ? [cat.id] : []
CategoryList(cat) == IF cat = Undefined THEN <<>> ELSE <<cat.id>>

\* const sampleProviders of MemStorage.initializeSeedData
MemSampleProviders(cats) ==
    << [email |-> "'mike@example.com'", password |-> Hash("password123"),
        firstName |-> "'Mike'", lastName |-> "'Thompson'", role |-> "'provider'",
        specialty |-> "'Licensed Electrician'", location |-> "'Downtown Area'",
        description |-> "'15+ years experience in residential and commercial electrical work. Available for emergency calls.'",
        hourlyRate |-> "'85.00'", isApproved |-> "true", rating |-> "'4.9'", reviewCount |-> "127",
        categories |-> CategoryList(cats[1])],
       [email |-> "'sarah@example.com'", password |-> Hash("password123"),
        firstName |-> "'Sarah'", lastName |-> "'Martinez'", role |-> "'provider'",
        specialty |-> "'Master Plumber'", location |-> "'North Side'",
        description |-> "'Specializing in emergency repairs, fixture installations, and water heater services. Fast response time.'",
        hourlyRate |-> "'95.00'", isApproved |-> "true", rating |-> "'4.8'", reviewCount |-> "94",
        categories |-> CategoryList(cats[2])],
       [email |-> "'david@example.com'", password |-> Hash("password123"),
        firstName |-> "'David'", lastName |-> "'Chen'", role |-> "'provider'",
        specialty |-> "'Custom Carpenter'", location |-> "'West End'",
        description |-> "'Custom furniture, cabinetry, and home improvements. Meticulous attention to detail and craftsmanship.'",
        hourlyRate |-> "'75.00'", isApproved |-> "true", rating |-> "'5.0'", reviewCount |-> "73",
        categories |-> CategoryList(cats[3])] >>

\* const sampleProviders of DbStorage.initializeSeedData
DbSampleProviders(cats) ==
    << [email |-> "'mike@example.com'", password |-> Hash("password123"),
        firstName |-> "'Mike'", lastName |-> "'Thompson'", role |-> "'provider'",
        specialty |-> "'Licensed Electrician'", location |-> "'Downtown Area'",
        description |-> "'15+ years experience in residential and commercial electrical work. Available for emergency calls.'",
        hourlyRate |-> "'85.00'", isApproved |-> "true", rating |-> "'4.9'", reviewCount |-> "127",
        categories |-> CategoryList(cats[1])],
       [email |-> "'sarah@example.com'", password |-> Hash("password123"),
        firstName |-> "'Sarah'", lastName |-> "'Martinez'", role |-> "'provider'",
        specialty |-> "'Master Plumber'", location |-> "'North Side'",
        description |-> "'Specializing in emergency repairs, fixture installations, and water heater services. Fast response time.'",
        hourlyRate |-> "'95.00'", isApproved |-> "true", rating |-> "'4.8'", reviewCount |-> "93",
        categories |-> CategoryList(cats[2])],
       [email |-> "'david@example.com'", password |-> Hash("password123"),
        firstName |-> "'David'", lastName |-> "'Chen'", role |-> "'provider'",
        specialty |-> "'Master Carpenter'", location |-> "'West End'",
        description |-> "'Custom furniture, deck building, and general carpentry. Quality craftsmanship guaranteed.'",
        hourlyRate |-> "'75.00'", isApproved |-> "true", rating |-> "'5.0'", reviewCount |-> "45",
        categories |-> CategoryList(cats[3])] >>

\* the keys of an object other than those named: const { k, ...rest } = o
Omit(o, keys) == [k \in (DOMAIN o) \ keys |-> o[k]]

\* the keys of an object among those named
Pick(o, keys) == [k \in keys |-> o[k]]

\* the identifier the n-th create of seed invocation i generates (unused: each
\* invocation issues its n-th create once)
SeedId(i, n) == 100 * i + n

\* the activation record of an invocation that has not been called
SeedIdle == [pc |-> "idle", k |-> 0, cats |-> <<>>, user |-> 0, provider |-> 0, n |-> 0, after |-> FALSE]

-----------------------------------------------------------------------------
(* The calls the callers issue: the inputs the exploration draws from *)

\* the seed invocations: the constructor's (MemStorage), two startups' (DbStorage)
Invocations == {1, 2}

\* const id = randomUUID() / the generated primary key: the next unused identifier
RandomUUID(n) == n + 1

\* the identifiers a caller passes to get, update and delete: those generated and
\* those never generated or generated for another collection
CallerIds == 1..MaxIds

\* the id of the category the constructor creates first, and one no category has
CategoryIds == {SeedId(1, 1), SeedId(1, 2)}

UserInputs ==
    { [email |-> "'ann@x.io'", password |-> Hash("pw"), firstName |-> "'Ann'", lastName |-> "'Lee'"],
      [email |-> "'joe@x.io'", password |-> Hash("pw"), firstName |-> "'Joe'", lastName |-> "'Roe'",
       role |-> "'provider'", phone |-> "'555-0100'"] }

UserUpdates ==
    { EmptyObj, [firstName |-> "'Bob'"] }

\* userId 1 is a stored user in some runs and no user in others
ProviderInputs ==
    { [userId |-> 1, specialty |-> "'Handyman'"],
      [userId |-> 1, specialty |-> "'Master Plumber'", location |-> "'North Side'",
       isApproved |-> "true", categories |-> <<SeedId(1, 1)>>] }

ProviderUpdates ==
    { EmptyObj, [rating |-> "'4.9'", reviewCount |-> "127"] }

ProviderFilters ==
    { Spread(Spread(a, l), c) :
        a \in {EmptyObj, [isApproved |-> "true"], [isApproved |-> "false"]},
        l \in {EmptyObj, [location |-> "'north'"], [location |-> "'Side'"], [location |-> "''"]},
        c \in {EmptyObj} \cup {[categoryId |-> x] : x \in CategoryIds} }

BookingInputs ==
    { [customerId |-> 1, providerId |-> 2, notes |-> Null],
      [customerId |-> 1, providerId |-> 2, status |-> "'confirmed'", estimatedDuration |-> "60",
       estimatedCost |-> "'120.00'", notes |-> "'gate code 42'"] }

BookingUpdates ==
    { EmptyObj, [status |-> "'completed'", actualCost |-> "'99.00'"] }

ReviewInputs ==
    { [providerId |-> 1, customerId |-> 1, bookingId |-> 1, rating |-> "5"],
      [providerId |-> 1, customerId |-> 1, bookingId |-> 1, rating |-> "2",
       comment |-> "'late'", isVisible |-> "false"] }

ReviewUpdates ==
    { EmptyObj, [isVisible |-> "false"] }

-----------------------------------------------------------------------------
(* The storage port: each call on the active backend *)

GetUser(id) == IF backend = "mem" THEN MemGetUser(users, id) ELSE DbGetUser(users, id)

GetProvider(id) ==
    IF backend = "mem" THEN MemGetProvider(providers, id) ELSE DbGetProvider(providers, id)

GetBooking(id) ==
    IF backend = "mem" THEN MemGetBooking(bookings, id) ELSE DbGetBooking(bookings, id)

GetProviders(filters) ==
    IF backend = "mem" THEN MemGetProviders(providers, users, filters)
                       ELSE DbGetProviders(providers, filters)

GetReviews(providerId) ==
    IF backend = "mem" THEN MemGetReviews(reviews, providerId) ELSE DbGetReviews(reviews, providerId)

Call(op, id, input, val) == [op |-> op, id |-> id, input |-> input, val |-> val]

NoCall == Call("none", 0, EmptyObj, Undefined)

CreateUser ==
    /\ uuid < MaxIds
    /\ \E insertUser \in UserInputs :
         LET id == RandomUUID(uuid)
             r  == IF backend = "mem" THEN MemCreateUser(users, insertUser, id, now)
                                      ELSE DbCreateUser(users, insertUser, id, now)
         IN  /\ users' = r.store
             /\ ret' = Call("createUser", id, insertUser, r.val)
             /\ uuid' = id
             /\ now' = now + 1
    /\ UNCHANGED <<backend, serviceCategories, providers, bookings, reviews, deleted, seed, writes>>

UpdateUser ==
    /\ \E id \in CallerIds, updates \in UserUpdates :
         LET r == IF backend = "mem" THEN MemUpdateUser(users, id, updates)
                                     ELSE DbUpdateUser(users, id, updates)
         IN  /\ users' = r.store
             /\ ret' = Call("updateUser", id, updates, r.val)
    /\ UNCHANGED <<backend, serviceCategories, providers, bookings, reviews, uuid, now, deleted, seed, writes>>

CreateProvider ==
    /\ uuid < MaxIds
    /\ \E provider \in ProviderInputs :
         LET id == RandomUUID(uuid)
             r  == IF backend = "mem" THEN MemCreateProvider(providers, provider, id, now)
                                      ELSE DbCreateProvider(providers, provider, id, now)
         IN  /\ providers' = r.store
             /\ ret' = Call("createProvider", id, provider, r.val)
             /\ uuid' = id
             /\ now' = now + 1
    /\ UNCHANGED <<backend, users, serviceCategories, bookings, reviews, deleted, seed, writes>>

UpdateProvider ==
    /\ \E id \in CallerIds, updates \in ProviderUpdates :
         LET r == IF backend = "mem" THEN MemUpdateProvider(providers, id, updates)
                                     ELSE DbUpdateProvider(providers, id, updates)
         IN  /\ providers' = r.store
             /\ ret' = Call("updateProvider", id, updates, r.val)
    /\ UNCHANGED <<backend, users, serviceCategories, bookings, reviews, uuid, now, deleted, seed, writes>>

CreateBooking ==
    /\ uuid < MaxIds
    /\ \E booking \in BookingInputs :
         LET id == RandomUUID(uuid)
             r  == IF backend = "mem" THEN MemCreateBooking(bookings, booking, id, now)
                                      ELSE DbCreateBooking(bookings, booking, id, now)
         IN  /\ bookings' = r.store
             /\ ret' = Call("createBooking", id, booking, r.val)
             /\ uuid' = id
             /\ now' = now + 1
    /\ UNCHANGED <<backend, users, serviceCategories, providers, reviews, deleted, seed, writes>>

UpdateBooking ==
    /\ \E id \in CallerIds, updates \in BookingUpdates :
         LET r == IF backend = "mem" THEN MemUpdateBooking(bookings, id, updates)
                                     ELSE DbUpdateBooking(bookings, id, updates)
         IN  /\ bookings' = r.store
             /\ ret' = Call("updateBooking", id, updates, r.val)
    /\ UNCHANGED <<backend, users, serviceCategories, providers, reviews, uuid, now, deleted, seed, writes>>

CreateReview ==
    /\ uuid < MaxIds
    /\ \E review \in ReviewInputs :
         LET id == RandomUUID(uuid)
             r  == IF backend = "mem" THEN MemCreateReview(reviews, review, id, now)
                                      ELSE DbCreateReview(reviews, review, id, now)
         IN  /\ reviews' = r.store
             /\ ret' = Call("createReview", id, review, r.val)
             /\ uuid' = id
             /\ now' = now + 1
    /\ UNCHANGED <<backend, users, serviceCategories, providers, bookings, deleted, seed, writes>>

UpdateReview ==
    /\ \E id \in CallerIds, updates \in ReviewUpdates :
         LET r == IF backend = "mem" THEN MemUpdateReview(reviews, id, updates)
                                     ELSE DbUpdateReview(reviews, id, updates)
         IN  /\ reviews' = r.store
             /\ ret' = Call("updateReview", id, updates, r.val)
    /\ UNCHANGED <<backend, users, serviceCategories, providers, bookings, uuid, now, deleted, seed, writes>>

DeleteReview ==
    /\ \E id \in CallerIds :
         LET r == IF backend = "mem" THEN MemDeleteReview(reviews, id)
                                     ELSE DbDeleteReview(reviews, id)
         IN  /\ reviews' = r.store
             /\ ret' = Call("deleteReview", id, EmptyObj, r.val)
             /\ deleted' = IF r.val.bool THEN deleted \cup {id} ELSE deleted
    /\ UNCHANGED <<backend, users, serviceCategories, providers, bookings, uuid, now, seed, writes>>

\* new MemStorage(): the constructor calls initializeSeedData, which runs up to
\* its first await, after the first createServiceCategory
MemConstructed ==
    [serviceCategories |-> MemCreateServiceCategory(EmptyMap, SeedCategories[1], SeedId(1, 1)).store,
     seed |-> [i \in Invocations |->
                 IF i = 1 THEN [SeedIdle EXCEPT !.pc = "categories", !.k = 1, !.n = 1] ELSE SeedIdle],
     writes |-> [i \in Invocations |-> IF i = 1 THEN 1 ELSE 0]]

\* new DbStorage(): no constructor; initializeSeedData waits for the startup to call it
DbConstructed ==
    [serviceCategories |-> EmptyMap, seed |-> [i \in Invocations |-> SeedIdle],
     writes |-> [i \in Invocations |-> 0]]

InitBackend(b) ==
    /\ backend = b
    /\ users = EmptyMap
    /\ providers = EmptyMap
    /\ bookings = EmptyMap
    /\ reviews = EmptyMap
    /\ serviceCategories = (IF b = "mem" THEN MemConstructed ELSE DbConstructed).serviceCategories
    /\ seed = (IF b = "mem" THEN MemConstructed ELSE DbConstructed).seed
    /\ writes = (IF b = "mem" THEN MemConstructed ELSE DbConstructed).writes
    /\ uuid = 0
    /\ now = 0
    /\ ret = NoCall
    /\ deleted = {}

\* export const storage = NODE_ENV === 'test' ? new MemStorage() : new DbStorage()
Init == \E b \in {"mem", "db"} : InitBackend(b)

Next ==
    \/ CreateUser
    \/ UpdateUser
    \/ CreateProvider
    \/ UpdateProvider
    \/ CreateBooking
    \/ UpdateBooking
    \/ CreateReview
    \/ UpdateReview
    \/ DeleteReview

Spec == Init /\ [][Next]_vars

-----------------------------------------------------------------------------
(* Claims about the storage port, checked under Spec *)

UpdateOps == {"updateUser", "updateProvider", "updateBooking", "updateReview"}

\* the collection an update call works on
Collection(op) ==
    CASE op = "updateUser" -> users
      [] op = "updateProvider" -> providers
      [] op = "updateBooking" -> bookings
      [] op = "updateReview" -> reviews

\* the point lookup of the collection a create or update call works on
Lookup(op, id) ==
    CASE op \in {"createUser", "updateUser"} -> GetUser(id)
      [] op \in {"createProvider", "updateProvider"} -> GetProvider(id)
      [] op \in {"createBooking", "updateBooking"} -> GetBooking(id)

\* the entity a create call returns carries the generated id and is what get
\* returns right after the call
C1_CreateStep ==
    \A op \in {"createUser", "createProvider", "createBooking"} :
        ret'.op = op =>
            \A id \in {ret'.id} : ret'.val.id = id /\ Lookup(op, id)' = ret'.val

\* a call that is no update of a stored entity leaves what get returns for it
C1_OtherStep ==
    \A op \in {"updateUser", "updateProvider", "updateBooking"} :
        \A id \in DOMAIN Collection(op) :
            ~(ret'.op = op /\ ret'.id = id) => Lookup(op, id)' = Lookup(op, id)

\* C1: the entity createUser, createProvider or createBooking returns is what
\* get(id) returns, field for field, right after the call and after every
\* further call that is no update of that entity
C1_CreateThenGet == [][C1_CreateStep /\ C1_OtherStep]_vars

\* C1 witness: a provider created with default-filled fields is stored as
\* created after a later updateUser has changed a user
C1_Witness ==
    /\ ret.op = "updateUser"
    /\ "firstName" \in DOMAIN ret.input
    /\ ret.id \in DOMAIN users
    /\ \E id \in DOMAIN providers :
          /\ GetProvider(id).rating = "'0'"
          /\ GetProvider(id).reviewCount = "0"
          /\ GetProvider(id).createdAt > 0

\* C2: an update call on an id its collection does not hold returns undefined,
\* raises nothing and changes no collection
C2_UpdateMissing ==
    [][\A op \in UpdateOps :
          (ret'.op = op /\ ret'.id \notin DOMAIN Collection(op))
              => (ret'.val = Undefined /\ stores' = stores)]_vars

\* C3: an update call on a stored id returns and stores the record whose named
\* fields have the supplied values and whose other fields are as before; with no
\* field named, the record returned equals the one stored before and stays stored
C3_UpdateMerges ==
    [][\A op \in UpdateOps :
          (ret'.op = op /\ ret'.id \in DOMAIN Collection(op))
              => LET before == Collection(op)[ret'.id]
                     fields == ret'.input
                     after  == ret'.val
                 IN  /\ DOMAIN after = (DOMAIN before) \cup (DOMAIN fields)
                     /\ \A f \in DOMAIN fields : after[f] = fields[f]
                     /\ \A f \in (DOMAIN before) \ (DOMAIN fields) : after[f] = before[f]
                     /\ ret'.id \in DOMAIN Collection(op)'
                     /\ Collection(op)'[ret'.id] = after
                     /\ (DOMAIN fields = {}) => (after = before /\ stores' = stores)]_vars

\* what deleteReview(id) does in one step
C4_DeleteStep ==
    ret'.op = "deleteReview"
        => /\ ret'.val = Bool(ret'.id \in DOMAIN reviews)
           /\ DOMAIN reviews' = (DOMAIN reviews) \ {ret'.id}
           /\ \A x \in DOMAIN reviews' : reviews'[x] = reviews[x]
           /\ ret'.id \in deleted => (ret'.val = Bool(FALSE) /\ reviews' = reviews)

\* a deleted review is stored no more and listed no more
C4_DeletedStaysGone ==
    \A id \in deleted :
        /\ id \notin DOMAIN reviews
        /\ \A p \in CallerIds : \A r \in GetReviews(p) : r.id # id

\* C4: deleteReview(id) returns true exactly when the review was stored and
\* removes it; deleting it again returns false and changes nothing; a deleted
\* review is never listed by getReviews again
C4_DeleteReview == []C4_DeletedStaysGone /\ [][C4_DeleteStep]_vars

\* C4 witness: a second deleteReview of a deleted id has returned false, while
\* another review is still stored
C4_Witness ==
    /\ ret.op = "deleteReview"
    /\ ret.id \in deleted
    /\ ret.val = Bool(FALSE)
    /\ DOMAIN reviews # {}

\* C5: getReviews(providerId) returns exactly the stored reviews of that
\* provider whose isVisible is true
C5_OnlyVisibleReviews ==
    \A p \in CallerIds :
        GetReviews(p) = {reviews[id] : id \in {x \in DOMAIN reviews :
                              reviews[x].providerId = p /\ reviews[x].isVisible = "true"}}

\* whether a stored provider satisfies every supplied filter
C6_Matches(p, filters) ==
    /\ "isApproved" \in DOMAIN filters => p.isApproved = filters.isApproved
    /\ "location" \in DOMAIN filters =>
          Includes(ToLowerCase(Unquote(p.location)), ToLowerCase(Unquote(filters.location)))
    /\ "categoryId" \in DOMAIN filters => ArrIncludes(p.categories, filters.categoryId)

\* C6: getProviders(filters) returns exactly the providers that satisfy every
\* supplied filter, the location one ignoring letter case, in either backend
C6_FiltersCompose ==
    \A filters \in ProviderFilters :
        {p.id : p \in GetProviders(filters)} =
            {id \in DOMAIN providers : C6_Matches(providers[id], filters)}

\* C7: every record getProviders returns carries the summary of the user stored
\* under its userId at the time of the call, or null when there is none, and no
\* stored provider holds a summary
C7_UserSummary ==
    /\ \A filters \in ProviderFilters : \A p \in GetProviders(filters) :
          /\ "user" \in DOMAIN p
          /\ p.user = IF p.userId \in DOMAIN users
                      THEN [id |-> users[p.userId].id,
                            firstName |-> users[p.userId].firstName,
                            lastName |-> users[p.userId].lastName,
                            email |-> users[p.userId].email]
                      ELSE NullObj
    /\ \A id \in DOMAIN providers : "user" \notin DOMAIN providers[id]

C10_Optional == {"estimatedDuration", "estimatedCost", "actualCost", "notes"}

\* C10: MemStorage.createBooking stores and returns a booking whose status is
\* 'pending' when the input has none and the input's status otherwise, and whose
\* optional fields each hold the input's value or null
C10_BookingDefaults ==
    (backend = "mem" /\ ret.op = "createBooking")
        => LET b == ret.val
               input == ret.input
           IN  /\ "status" \in DOMAIN b
               /\ "status" \notin DOMAIN input => b.status = "'pending'"
               /\ "status" \in DOMAIN input => b.status = input.status
               /\ \A f \in C10_Optional :
                     /\ f \in DOMAIN b
                     /\ b[f] = IF f \in DOMAIN input THEN input[f] ELSE Null
               /\ GetBooking(b.id) = b

\* C10 witness: a booking created from an input without status, while another
\* booking created with a status is stored
C10_Witness ==
    /\ backend = "mem"
    /\ ret.op = "createBooking"
    /\ "status" \notin DOMAIN ret.input
    /\ ret.val.status = "'pending'"
    /\ \E id \in DOMAIN bookings : bookings[id].status = "'confirmed'"

\* rating is the string "0" and reviewCount the number 0
C11_Defaulted(p) ==
    /\ "rating" \in DOMAIN p /\ p.rating = "'0'"
    /\ "reviewCount" \in DOMAIN p /\ p.reviewCount = "0"

\* getProviders lists every stored provider once, with the rating and the
\* reviewCount getProvider returns for it
C11_ListAgrees ==
    /\ \A id \in DOMAIN providers : \E p \in GetProviders(EmptyObj) : p.id = id
    /\ \A p \in GetProviders(EmptyObj) :
          /\ GetProvider(p.id) # Undefined
          /\ p.rating = GetProvider(p.id).rating
          /\ p.reviewCount = GetProvider(p.id).reviewCount

\* getProvider(id) and the record getProviders lists for id are defaulted
C11_ReadDefaulted(id) ==
    /\ C11_Defaulted(GetProvider(id))
    /\ \E p \in GetProviders(EmptyObj) : p.id = id /\ C11_Defaulted(p)

\* the provider a createProvider call without rating returns, and the one
\* getProvider returns right after the call, are defaulted
C11_CreateStep ==
    (ret'.op = "createProvider" /\ "rating" \notin DOMAIN ret'.input)
        => /\ C11_Defaulted(ret'.val)
           /\ \A id \in {ret'.id} : C11_Defaulted(GetProvider(id))'

\* a defaulted provider stays defaulted through every call that is no
\* updateProvider of it
C11_KeepStep ==
    \A id \in DOMAIN providers :
        (C11_Defaulted(GetProvider(id)) /\ ~(ret'.op = "updateProvider" /\ ret'.id = id))
            => C11_Defaulted(GetProvider(id))'

\* C11: a provider created by createProvider without an explicit rating has
\* rating equal to the string "0", not the number 0, and reviewCount equal to 0,
\* in the returned entity and in what getProvider and getProviders return for
\* it, until an updateProvider call targets it
C11_DefaultRating == []C11_ListAgrees /\ [][C11_CreateStep /\ C11_KeepStep]_vars

\* C11 witness: a provider is created without rating while an earlier provider
\* has had its rating set by updateProvider
C11_Witness ==
    /\ ret.op = "createProvider"
    /\ "rating" \notin DOMAIN ret.input
    /\ C11_ReadDefaulted(ret.id)
    /\ \E id \in DOMAIN providers : id # ret.id /\ providers[id].rating = "'4.9'"

-----------------------------------------------------------------------------
(* MemStorage.initializeSeedData: one action per stretch between two awaits *)

NumCategories == Len(SeedCategories)

NumSamples == Len(SeedCategoryNames)

\* Array.from(this.serviceCategories.values()).find(c => c.name === name): the
\* first in insertion order, which for one invocation is the least identifier
MemFindCategory(cs, name) ==
    LET found == {id \in DOMAIN cs : cs[id].name = name}
    IN  IF found = {} THEN Undefined
        ELSE cs[CHOOSE id \in found : \A other \in found : id <= other]

\* the loop over categories: the next createServiceCategory
MemSeedCategory ==
    /\ backend = "mem"
    /\ seed[1].pc = "categories"
    /\ seed[1].k < NumCategories
    /\ LET r == MemCreateServiceCategory(serviceCategories, SeedCategories[seed[1].k + 1],
                                         SeedId(1, seed[1].n + 1))
       IN  serviceCategories' = r.store
    /\ seed' = [seed EXCEPT ![1].k = @ + 1, ![1].n = @ + 1]
    /\ writes' = [writes EXCEPT ![1] = @ + 1]
    /\ UNCHANGED <<backend, users, providers, bookings, reviews, uuid, now, ret, deleted>>

\* the loop ends: await bcrypt.hash("admin123", 10)
MemSeedHashAdmin ==
    /\ backend = "mem"
    /\ seed[1].pc = "categories"
    /\ seed[1].k = NumCategories
    /\ seed' = [seed EXCEPT ![1].pc = "adminHash"]
    /\ UNCHANGED <<backend, stores, uuid, now, ret, deleted, writes>>

\* await this.createUser(admin)
MemSeedAdmin ==
    /\ backend = "mem"
    /\ seed[1].pc = "adminHash"
    /\ LET r == MemCreateUser(users, SeedAdmin, SeedId(1, seed[1].n + 1), now)
       IN  users' = r.store
    /\ seed' = [seed EXCEPT ![1].pc = "admin", ![1].n = @ + 1]
    /\ writes' = [writes EXCEPT ![1] = @ + 1]
    /\ UNCHANGED <<backend, serviceCategories, providers, bookings, reviews, uuid, now, ret, deleted>>

\* the three categories are looked up, then the first sample password is hashed
MemSeedResolve ==
    /\ backend = "mem"
    /\ seed[1].pc = "admin"
    /\ seed' = [seed EXCEPT ![1].pc = "hash", ![1].k = 1,
                            ![1].cats = [x \in 1..NumSamples |->
                                           MemFindCategory(serviceCategories, SeedCategoryNames[x])]]
    /\ UNCHANGED <<backend, stores, uuid, now, ret, deleted, writes>>

\* the next sample password is hashed
MemSeedHash ==
    /\ backend = "mem"
    /\ seed[1].pc = "hash"
    /\ seed[1].k < NumSamples
    /\ seed' = [seed EXCEPT ![1].k = @ + 1]
    /\ UNCHANGED <<backend, stores, uuid, now, ret, deleted, writes>>

\* the loop over sampleProviders: await this.createUser(...)
MemSeedUser ==
    /\ backend = "mem"
    /\ \/ seed[1].pc = "hash" /\ seed[1].k = NumSamples
       \/ seed[1].pc = "provider" /\ seed[1].k < NumSamples
    /\ LET k == IF seed[1].pc = "hash" THEN 1 ELSE seed[1].k + 1
           providerData == MemSampleProviders(seed[1].cats)[k]
           r == MemCreateUser(users,
                              Pick(providerData, {"email", "password", "firstName", "lastName", "role"}),
                              SeedId(1, seed[1].n + 1), now)
       IN  /\ users' = r.store
           /\ seed' = [seed EXCEPT ![1].pc = "user", ![1].k = k, ![1].n = @ + 1,
                                   ![1].user = r.val.id]
    /\ writes' = [writes EXCEPT ![1] = @ + 1]
    /\ UNCHANGED <<backend, serviceCategories, providers, bookings, reviews, uuid, now, ret, deleted>>

\* await this.createProvider(...)
MemSeedProvider ==
    /\ backend = "mem"
    /\ seed[1].pc = "user"
    /\ LET providerData == MemSampleProviders(seed[1].cats)[seed[1].k]
           r == MemCreateProvider(providers,
                                  Spread([userId |-> seed[1].user],
                                         Pick(providerData, {"specialty", "location", "description",
                                                             "hourlyRate", "isApproved", "categories"})),
                                  SeedId(1, seed[1].n + 1), now)
       IN  /\ providers' = r.store
           /\ seed' = [seed EXCEPT ![1].pc = "provider", ![1].n = @ + 1, ![1].provider = r.val.id]
    /\ writes' = [writes EXCEPT ![1] = @ + 1]
    /\ UNCHANGED <<backend, users, serviceCategories, bookings, reviews, uuid, now, ret, deleted>>

\* the loop ends and the promise of initializeSeedData resolves
MemSeedDone ==
    /\ backend = "mem"
    /\ seed[1].pc = "provider"
    /\ seed[1].k = NumSamples
    /\ seed' = [seed EXCEPT ![1].pc = "done"]
    /\ UNCHANGED <<backend, stores, uuid, now, ret, deleted, writes>>

\* what a listing call resolves to
Rows(rows) == [rows |-> rows]

\* a caller's storage.getServiceCategories()
CallGetServiceCategories ==
    /\ ret' = Call("getServiceCategories", 0, EmptyObj,
                   Rows(IF backend = "mem" THEN MemGetServiceCategories(serviceCategories)
                                           ELSE DbGetServiceCategories(serviceCategories)))
    /\ UNCHANGED <<backend, stores, uuid, now, deleted, seed, writes>>

\* a caller's storage.getAllUsers()
CallGetAllUsers ==
    /\ ret' = Call("getAllUsers", 0, EmptyObj, Rows(MemGetAllUsers(users)))
    /\ UNCHANGED <<backend, stores, uuid, now, deleted, seed, writes>>

\* a caller's storage.getProviders()
CallGetProviders ==
    /\ ret' = Call("getProviders", 0, EmptyObj, Rows(GetProviders(EmptyObj)))
    /\ UNCHANGED <<backend, stores, uuid, now, deleted, seed, writes>>

InitMem == InitBackend("mem")

NextMemSeed ==
    \/ MemSeedCategory
    \/ MemSeedHashAdmin
    \/ MemSeedAdmin
    \/ MemSeedResolve
    \/ MemSeedHash
    \/ MemSeedUser
    \/ MemSeedProvider
    \/ MemSeedDone
    \/ CallGetServiceCategories
    \/ CallGetAllUsers
    \/ CallGetProviders

\* a MemStorage from its construction on, its seeding running beside its callers
SpecMemSeed == InitMem /\ [][NextMemSeed]_vars

\* whether the rows of a listing are those of the fully seeded store
RoleCount(rows, role) == Cardinality({u \in rows : u.role = role})

\* C9: every call issued on a MemStorage after its constructor returned sees the
\* fully seeded store: 8 categories, the admin, 3 provider users, 3 providers
C9_SeededBeforeFirstUse ==
    /\ ret.op = "getServiceCategories" => Cardinality(ret.val.rows) = 8
    /\ ret.op = "getAllUsers" =>
          /\ Cardinality(ret.val.rows) = 4
          /\ RoleCount(ret.val.rows, "'admin'") = 1
          /\ RoleCount(ret.val.rows, "'provider'") = 3
    /\ ret.op = "getProviders" => Cardinality(ret.val.rows) = 3

\* the sample providers of the backend, their categories left unresolved
C12_Samples ==
    LET cats == [x \in 1..NumSamples |-> Undefined]
    IN  IF backend = "mem" THEN MemSampleProviders(cats) ELSE DbSampleProviders(cats)

\* every invocation of the seed initializer that was started has completed
C12_Seeded ==
    /\ \E i \in Invocations : seed[i].pc = "done"
    /\ \A i \in Invocations : seed[i].pc \in {"idle", "done"}

\* C12: once the seed initializer has completed, each of the three sample
\* providers is stored with its sample rating and review count (the Licensed
\* Electrician with rating "4.9" and reviewCount 127)
C12_SampleRatings ==
    C12_Seeded =>
        \A k \in 1..NumSamples :
            LET sample == C12_Samples[k]
            IN  /\ \E id \in DOMAIN providers : GetProvider(id).specialty = sample.specialty
                /\ \A id \in DOMAIN providers :
                      GetProvider(id).specialty = sample.specialty
                          => /\ GetProvider(id).rating = sample.rating
                             /\ GetProvider(id).reviewCount = sample.reviewCount

-----------------------------------------------------------------------------
(* DbStorage.initializeSeedData: one action per database request; an        *)
(* invocation is suspended between its requests                              *)

\* the existence check as it would be if it compared with the number of seed categories
AlreadySeededWhenMore(existingCategories) == Cardinality(existingCategories) > NumCategories

\* if (existingCategories.length > 0) return
AlreadySeeded(existingCategories) == Cardinality(existingCategories) > 0

\* allCategories.find(c => c.name === name): the first row with that name in
\* the order the select returned, which SQL leaves open: any row with that name
DbFindCategory(allCategories, name) ==
    IF \E c \in allCategories : c.name = name
    THEN {c \in allCategories : c.name = name}
    ELSE {Undefined}

\* businessName: `${firstName}'s ${specialty}`
BusinessName(providerData) ==
    "'" \o Unquote(providerData.firstName) \o "'s " \o Unquote(providerData.specialty) \o "'"

\* the call and its first request: select from serviceCategories, return if any
DbSeedCheck(i) ==
    /\ backend = "db"
    /\ seed[i].pc = "idle"
    /\ LET existingCategories == DbGetServiceCategories(serviceCategories)
       IN  seed' = [seed EXCEPT
                      ![i].pc = IF AlreadySeeded(existingCategories) THEN "done" ELSE "categories",
                      ![i].after = \E j \in Invocations \ {i} : seed[j].pc = "done"]
    /\ UNCHANGED <<backend, stores, uuid, now, ret, deleted, writes>>

\* the loop over categories: the next createServiceCategory
DbSeedCategory(i) ==
    /\ backend = "db"
    /\ seed[i].pc = "categories"
    /\ seed[i].k < NumCategories
    /\ LET r == DbCreateServiceCategory(serviceCategories, SeedCategories[seed[i].k + 1],
                                        SeedId(i, seed[i].n + 1))
       IN  serviceCategories' = r.store
    /\ seed' = [seed EXCEPT ![i].k = @ + 1, ![i].n = @ + 1]
    /\ writes' = [writes EXCEPT ![i] = @ + 1]
    /\ UNCHANGED <<backend, users, providers, bookings, reviews, uuid, now, ret, deleted>>

\* the admin password is hashed and the admin created
DbSeedAdmin(i) ==
    /\ backend = "db"
    /\ seed[i].pc = "categories"
    /\ seed[i].k = NumCategories
    /\ LET r == DbCreateUser(users, SeedAdmin, SeedId(i, seed[i].n + 1), now)
       IN  users' = r.store
    /\ seed' = [seed EXCEPT ![i].pc = "admin", ![i].n = @ + 1]
    /\ writes' = [writes EXCEPT ![i] = @ + 1]
    /\ UNCHANGED <<backend, serviceCategories, providers, bookings, reviews, uuid, now, ret, deleted>>

\* const allCategories = await db.select().from(serviceCategories), and the lookups
DbSeedResolve(i) ==
    /\ backend = "db"
    /\ seed[i].pc = "admin"
    /\ LET allCategories == DbGetServiceCategories(serviceCategories)
       IN  \E e \in DbFindCategory(allCategories, SeedCategoryNames[1]),
              p \in DbFindCategory(allCategories, SeedCategoryNames[2]),
              c \in DbFindCategory(allCategories, SeedCategoryNames[3]) :
                seed' = [seed EXCEPT ![i].pc = "resolved", ![i].k = 0, ![i].cats = <<e, p, c>>]
    /\ UNCHANGED <<backend, stores, uuid, now, ret, deleted, writes>>

\* the loop over sampleProviders: const user = await this.createUser(userData)
DbSeedUser(i) ==
    /\ backend = "db"
    /\ seed[i].pc \in {"resolved", "rated"}
    /\ seed[i].k < NumSamples
    /\ LET providerData == DbSampleProviders(seed[i].cats)[seed[i].k + 1]
           userData == Omit(providerData, {"categories"})
           r == DbCreateUser(users, userData, SeedId(i, seed[i].n + 1), now)
       IN  /\ users' = r.store
           /\ seed' = [seed EXCEPT ![i].pc = "user", ![i].k = @ + 1, ![i].n = @ + 1,
                                   ![i].user = r.val.id]
    /\ writes' = [writes EXCEPT ![i] = @ + 1]
    /\ UNCHANGED <<backend, serviceCategories, providers, bookings, reviews, uuid, now, ret, deleted>>

\* const provider = await this.createProvider(...)
DbSeedProvider(i) ==
    /\ backend = "db"
    /\ seed[i].pc = "user"
    /\ LET providerData == DbSampleProviders(seed[i].cats)[seed[i].k]
           r == DbCreateProvider(providers,
                                 [userId |-> seed[i].user,
                                  businessName |-> BusinessName(providerData),
                                  specialty |-> providerData.specialty,
                                  description |-> providerData.description,
                                  location |-> providerData.location,
                                  hourlyRate |-> providerData.hourlyRate,
                                  isApproved |-> providerData.isApproved,
                                  categories |-> providerData.categories],
                                 SeedId(i, seed[i].n + 1), now)
       IN  /\ providers' = r.store
           /\ seed' = [seed EXCEPT ![i].pc = "provider", ![i].n = @ + 1, ![i].provider = r.val.id]
    /\ writes' = [writes EXCEPT ![i] = @ + 1]
    /\ UNCHANGED <<backend, users, serviceCategories, bookings, reviews, uuid, now, ret, deleted>>

\* await this.updateProvider(provider.id, { rating, reviewCount })
DbSeedRate(i) ==
    /\ backend = "db"
    /\ seed[i].pc = "provider"
    /\ LET providerData == DbSampleProviders(seed[i].cats)[seed[i].k]
           r == DbUpdateProvider(providers, seed[i].provider,
                                 Pick(providerData, {"rating", "reviewCount"}))
       IN  providers' = r.store
    /\ seed' = [seed EXCEPT ![i].pc = "rated"]
    /\ writes' = [writes EXCEPT ![i] = @ + 1]
    /\ UNCHANGED <<backend, users, serviceCategories, bookings, reviews, uuid, now, ret, deleted>>

\* the loop ends and the promise of initializeSeedData resolves
DbSeedDone(i) ==
    /\ backend = "db"
    /\ seed[i].pc = "rated"
    /\ seed[i].k = NumSamples
    /\ seed' = [seed EXCEPT ![i].pc = "done"]
    /\ UNCHANGED <<backend, stores, uuid, now, ret, deleted, writes>>

InitDb == InitBackend("db")

NextDbSeed ==
    \E i \in Invocations :
        \/ DbSeedCheck(i)
        \/ DbSeedCategory(i)
        \/ DbSeedAdmin(i)
        \/ DbSeedResolve(i)
        \/ DbSeedUser(i)
        \/ DbSeedProvider(i)
        \/ DbSeedRate(i)
        \/ DbSeedDone(i)

\* an empty durable store and the invocations of its seed initializer
SpecDbSeed == InitDb /\ [][NextDbSeed]_vars

\* C8: when initializeSeedData has run to completion on the empty store and is
\* then run again, the second run issues no insert and no update, and the store
\* holds 8 categories, 4 users (1 admin, 3 providers) and 3 providers
C8_SeedTwice ==
    \A i, j \in Invocations :
        (i # j /\ seed[j].after /\ ~seed[i].after)
            => /\ seed[j].pc = "done"
               /\ writes[j] = 0
               /\ Cardinality(DOMAIN serviceCategories) = 8
               /\ Cardinality(DOMAIN users) = 4
               /\ RoleCount(MapValues(users), "'admin'") = 1
               /\ RoleCount(MapValues(users), "'provider'") = 3
               /\ Cardinality(DOMAIN providers) = 3

\* C8 witness: both runs are complete, the second one begun after the first ended
C8_Witness ==
    /\ seed[1].pc = "done" /\ ~seed[1].after /\ writes[1] > 0
    /\ seed[2].pc = "done" /\ seed[2].after

\* C14: however two invocations of DbStorage.initializeSeedData on an empty
\* store interleave between their database requests, once both have completed
\* the store holds exactly 8 service categories and 4 users
C14_SeedInterleaved ==
    (\A i \in Invocations : seed[i].pc = "done")
        => /\ Cardinality(DOMAIN serviceCategories) = NumCategories
           /\ Cardinality(DOMAIN users) = 1 + NumSamples

-----------------------------------------------------------------------------
(* MemStorage called with objects that carry an id field: InsertUser and      *)
(* Partial<User> are checked at compile time only, and Partial<User> has id  *)

\* an id field as a caller can pass it
IdFields == {[id |-> x] : x \in CallerIds}

\* create inputs that carry an id field
WithId(inputs) == {Spread(input, f) : input \in inputs, f \in IdFields}

\* MemStorage.createUser with an input that carries an id
CreateUserWithId ==
    /\ backend = "mem"
    /\ uuid < MaxIds
    /\ \E insertUser \in WithId(UserInputs) :
         LET id == RandomUUID(uuid)
             r  == MemCreateUser(users, insertUser, id, now)
         IN  /\ users' = r.store
             /\ ret' = Call("createUser", id, insertUser, r.val)
             /\ uuid' = id
             /\ now' = now + 1
    /\ UNCHANGED <<backend, serviceCategories, providers, bookings, reviews, deleted, seed, writes>>

\* MemStorage.updateUser with updates that carry an id
UpdateUserWithId ==
    /\ backend = "mem"
    /\ \E id \in CallerIds, updates \in IdFields :
         LET r == MemUpdateUser(users, id, updates)
         IN  /\ users' = r.store
             /\ ret' = Call("updateUser", id, updates, r.val)
    /\ UNCHANGED <<backend, serviceCategories, providers, bookings, reviews, uuid, now, deleted, seed, writes>>

\* MemStorage.createProvider with an input that carries an id
CreateProviderWithId ==
    /\ backend = "mem"
    /\ uuid < MaxIds
    /\ \E provider \in WithId(ProviderInputs) :
         LET id == RandomUUID(uuid)
             r  == MemCreateProvider(providers, provider, id, now)
         IN  /\ providers' = r.store
             /\ ret' = Call("createProvider", id, provider, r.val)
             /\ uuid' = id
             /\ now' = now + 1
    /\ UNCHANGED <<backend, users, serviceCategories, bookings, reviews, deleted, seed, writes>>

\* MemStorage.updateProvider with updates that carry an id
UpdateProviderWithId ==
    /\ backend = "mem"
    /\ \E id \in CallerIds, updates \in IdFields :
         LET r == MemUpdateProvider(providers, id, updates)
         IN  /\ providers' = r.store
             /\ ret' = Call("updateProvider", id, updates, r.val)
    /\ UNCHANGED <<backend, users, serviceCategories, bookings, reviews, uuid, now, deleted, seed, writes>>

\* MemStorage.createBooking with an input that carries an id
CreateBookingWithId ==
    /\ backend = "mem"
    /\ uuid < MaxIds
    /\ \E booking \in WithId(BookingInputs) :
         LET id == RandomUUID(uuid)
             r  == MemCreateBooking(bookings, booking, id, now)
         IN  /\ bookings' = r.store
             /\ ret' = Call("createBooking", id, booking, r.val)
             /\ uuid' = id
             /\ now' = now + 1
    /\ UNCHANGED <<backend, users, serviceCategories, providers, reviews, deleted, seed, writes>>

\* MemStorage.updateBooking with updates that carry an id
UpdateBookingWithId ==
    /\ backend = "mem"
    /\ \E id \in CallerIds, updates \in IdFields :
         LET r == MemUpdateBooking(bookings, id, updates)
         IN  /\ bookings' = r.store
             /\ ret' = Call("updateBooking", id, updates, r.val)
    /\ UNCHANGED <<backend, users, serviceCategories, providers, reviews, uuid, now, deleted, seed, writes>>

\* MemStorage.createReview with an input that carries an id
CreateReviewWithId ==
    /\ backend = "mem"
    /\ uuid < MaxIds
    /\ \E review \in WithId(ReviewInputs) :
         LET id == RandomUUID(uuid)
             r  == MemCreateReview(reviews, review, id, now)
         IN  /\ reviews' = r.store
             /\ ret' = Call("createReview", id, review, r.val)
             /\ uuid' = id
             /\ now' = now + 1
    /\ UNCHANGED <<backend, users, serviceCategories, providers, bookings, deleted, seed, writes>>

\* MemStorage.updateReview with updates that carry an id
UpdateReviewWithId ==
    /\ backend = "mem"
    /\ \E id \in CallerIds, updates \in IdFields :
         LET r == MemUpdateReview(reviews, id, updates)
         IN  /\ reviews' = r.store
             /\ ret' = Call("updateReview", id, updates, r.val)
    /\ UNCHANGED <<backend, users, serviceCategories, providers, bookings, uuid, now, deleted, seed, writes>>

NextMemIds ==
    \/ CreateUser \/ UpdateUser \/ CreateUserWithId \/ UpdateUserWithId
    \/ CreateProvider \/ UpdateProvider \/ CreateProviderWithId \/ UpdateProviderWithId
    \/ CreateBooking \/ UpdateBooking \/ CreateBookingWithId \/ UpdateBookingWithId
    \/ CreateReview \/ UpdateReview \/ CreateReviewWithId \/ UpdateReviewWithId
    \/ DeleteReview

\* a MemStorage whose callers also pass objects that carry an id field
SpecMemIds == InitMem /\ [][NextMemIds]_vars

\* the collections of MemStorage that hold records with generated identifiers
C13_Collections == <<users, providers, bookings, reviews>>

\* C13: in every reachable state of MemStorage each record stored under key k
\* has id k, and no two records of one collection share an id: create uses the
\* generated identifier even when the input carries an id, and update never
\* changes the id of the record it merges into
C13_IdIsKey ==
    \A n \in 1..Len(C13_Collections) :
        LET c == C13_Collections[n]
        IN  /\ \A k \in DOMAIN c : c[k].id = k
            /\ \A k1, k2 \in DOMAIN c : c[k1].id = c[k2].id => k1 = k2

=============================================================================
